---- MODULE Spec2Model ----
(***************************************************************************)
(* Model of the FatSecret token-injecting proxy of src/index.js: the       *)
(* process-wide token cache (cachedToken, tokenExpiresAt), getAccessToken, *)
(* fatsecretRestRequest and the twelve Express route handlers.             *)
(*                                                                         *)
(* A handler runs on the Node.js event loop: the code between two awaits   *)
(* is one atomic step.  A request therefore takes at most three steps:     *)
(*   1. the handler's synchronous prefix (validation, the cache check of   *)
(*      getAccessToken, the first outbound fetch),                         *)
(*   2. the continuation after the OAuth endpoint has answered,            *)
(*   3. the continuation after the upstream API has answered.              *)
(***************************************************************************)
EXTENDS Integers, Sequences, FiniteSets

VARIABLES
    clock,           \* Date.now(), in milliseconds
    cachedToken,     \* src/index.js:22
    tokenExpiresAt,  \* src/index.js:23
    validUntil,      \* history: the earliest instant at which the token in
                     \* cachedToken can stop being valid, if the OAuth server
                     \* issues a token no earlier than the request for it is
                     \* sent and the token is valid for expires_in seconds
    pc,              \* per request slot: "idle", "awaitOauth", "awaitApi", "done"
    req,             \* the inbound request of the slot
    now,             \* the local `now` of the slot's getAccessToken call
    token,           \* the value getAccessToken returned to the slot
    sent,            \* the outbound request made to the upstream API
    oauthResp,       \* what the OAuth endpoint answered to the slot's call
    apiResp,         \* what the upstream API answered to the slot's call
    res,             \* the response written to the inbound request
    err,             \* the error caught (and logged) by the handler
    oauthCalls,      \* number of POSTs to OAUTH_URL made for the slot's request
    apiCalls         \* number of calls to the upstream API made for the request

vars == <<clock, cachedToken, tokenExpiresAt, validUntil, pc, req, now, token,
          sent,
          oauthResp, apiResp, res, err, oauthCalls, apiCalls>>

----------------------------------------------------------------------------
(* Bounds of the model *)

MaxReqs == 2      \* request slots handled concurrently (SpecConc)
MaxTicks == 3     \* number of clock advances
TickMs == 5000    \* milliseconds per clock advance

Reqs == 1..MaxReqs

(* Program constants *)

SafetyMarginMs == 10000
MsPerSecond == 1000
BarcodeLength == 13

----------------------------------------------------------------------------
(* JavaScript values: undefined, null, strings (sequences of characters),  *)
(* numbers (integers) and NaN.                                             *)

Undefined == [t |-> "undefined", s |-> <<>>, n |-> 0]
Null == [t |-> "null", s |-> <<>>, n |-> 0]
NaN == [t |-> "nan", s |-> <<>>, n |-> 0]
Str(s) == [t |-> "string", s |-> s, n |-> 0]
Num(n) == [t |-> "number", s |-> <<>>, n |-> n]

\* ToBoolean, as applied by `!x`, `x && y`, `x || y`
Truthy(v) ==
    CASE v.t = "string" -> v.s # <<>>
      [] v.t = "number" -> v.n # 0
      [] OTHER -> FALSE

Digits == <<"0", "1", "2", "3", "4", "5", "6", "7", "8", "9">>

IsDigit(c) == \E i \in 1..Len(Digits) : Digits[i] = c

DigitValue(c) == (CHOOSE i \in 1..Len(Digits) : Digits[i] = c) - 1

AllDigits(s) == \A i \in 1..Len(s) : IsDigit(s[i])

RECURSIVE DigitsValue(_)
DigitsValue(s) ==
    IF s = <<>> THEN 0
    ELSE 10 * DigitsValue(SubSeq(s, 1, Len(s) - 1)) + DigitValue(s[Len(s)])

\* Number(v) for the values of the model: the empty string is 0, a decimal
\* literal with an optional sign is its value, any other string is NaN.
ToNumber(v) ==
    CASE v.t = "number" -> v
      [] v.t = "null" -> Num(0)
      [] v.t = "string" ->
            IF v.s = <<>> THEN Num(0)
            ELSE IF AllDigits(v.s) THEN Num(DigitsValue(v.s))
            ELSE IF Len(v.s) > 1 /\ v.s[1] = "-" /\ AllDigits(Tail(v.s))
                 THEN Num(0 - DigitsValue(Tail(v.s)))
            ELSE NaN
      [] OTHER -> NaN

RECURSIVE NatToChars(_)
NatToChars(n) ==
    IF n < 10 THEN <<Digits[n + 1]>>
    ELSE NatToChars(n \div 10) \o <<Digits[(n % 10) + 1]>>

\* String(v), as applied by url.searchParams.set(key, String(value))
JSString(v) ==
    CASE v.t = "string" -> v
      [] v.t = "number" ->
            IF v.n < 0 THEN Str(<<"-">> \o NatToChars(0 - v.n))
            ELSE Str(NatToChars(v.n))
      [] v.t = "nan" -> Str(<<"N", "a", "N">>)
      [] v.t = "null" -> Str(<<"n", "u", "l", "l">>)
      [] OTHER -> Str(<<"u", "n", "d", "e", "f", "i", "n", "e", "d">>)

\* a || b
OrElse(a, b) == IF Truthy(a) THEN a ELSE b

\* Math.min(a, b) on numbers; NaN if either is NaN
MathMin(a, b) ==
    IF a.t = "nan" \/ b.t = "nan" THEN NaN
    ELSE IF a.n <= b.n THEN a ELSE b

\* a destructuring default: `name = dflt` applies when the value is undefined
WithDefault(v, dflt) == IF v = Undefined THEN dflt ELSE v

----------------------------------------------------------------------------
(* The routes.  check: how the handler validates its required parameter;   *)
(* param: the upstream name the parameter is forwarded under; inline: the  *)
(* handler calls getAccessToken and fetch itself instead of going through  *)
(* fatsecretRestRequest.                                                   *)

Endpoints ==
    {"/search-foods", "/autocomplete-foods", "/find-food-by-barcode",
     "/food-details", "/food-brands", "/food-categories",
     "/food-sub-categories", "/recipe-details", "/search-recipes",
     "/recipe-types", "/nlp", "/image-recognition"}

Route(e) ==
    CASE e = "/search-foods" ->
           [check |-> "truthy", path |-> "foods/search/v3", method |-> "GET",
            param |-> "search_expression", hasMax |-> TRUE, dflt |-> 20, cap |-> 50,
            inline |-> FALSE,
            missing |-> "{\"error\":\"Missing search query (?q=)\"}",
            failure |-> "{\"error\":\"Internal error while searching foods\"}"]
      [] e = "/autocomplete-foods" ->
           [check |-> "truthy", path |-> "food/autocomplete/v2", method |-> "GET",
            param |-> "expression", hasMax |-> TRUE, dflt |-> 4, cap |-> 10,
            inline |-> FALSE,
            missing |-> "{\"error\":\"Missing query (?q=)\"}",
            failure |-> "{\"error\":\"Internal error while autocompleting foods\"}"]
      [] e = "/find-food-by-barcode" ->
           [check |-> "barcode", path |-> "food/barcode/find-by-id/v1", method |-> "GET",
            param |-> "barcode", hasMax |-> FALSE, dflt |-> 0, cap |-> 0,
            inline |-> FALSE,
            missing |-> "{\"error\":\"Missing or invalid 13-digit barcode (?barcode=)\"}",
            failure |-> "{\"error\":\"Internal error while finding food by barcode\"}"]
      [] e = "/food-details" ->
           [check |-> "truthy", path |-> "food/v4", method |-> "GET",
            param |-> "food_id", hasMax |-> FALSE, dflt |-> 0, cap |-> 0,
            inline |-> FALSE,
            missing |-> "{\"error\":\"Missing food id (?id=)\"}",
            failure |-> "{\"error\":\"Internal error while getting food details\"}"]
      [] e = "/food-brands" ->
           [check |-> "truthy", path |-> "brands/v2", method |-> "GET",
            param |-> "starts_with", hasMax |-> FALSE, dflt |-> 0, cap |-> 0,
            inline |-> FALSE,
            missing |-> "{\"error\":\"Missing required parameter (?starts_with=)\"}",
            failure |-> "{\"error\":\"Internal error while fetching food brands\"}"]
      [] e = "/food-categories" ->
           [check |-> "none", path |-> "food-categories/v2", method |-> "GET",
            param |-> "", hasMax |-> FALSE, dflt |-> 0, cap |-> 0,
            inline |-> FALSE,
            missing |-> "",
            failure |-> "{\"error\":\"Internal error while fetching food categories\"}"]
      [] e = "/food-sub-categories" ->
           [check |-> "truthy", path |-> "food-sub-categories/v2", method |-> "GET",
            param |-> "food_category_id", hasMax |-> FALSE, dflt |-> 0, cap |-> 0,
            inline |-> FALSE,
            missing |-> "{\"error\":\"Missing required parameter (?food_category_id=)\"}",
            failure |-> "{\"error\":\"Internal error while fetching food sub-categories\"}"]
      [] e = "/recipe-details" ->
           [check |-> "truthy", path |-> "recipe/v2", method |-> "GET",
            param |-> "recipe_id", hasMax |-> FALSE, dflt |-> 0, cap |-> 0,
            inline |-> FALSE,
            missing |-> "{\"error\":\"Missing recipe id (?id=)\"}",
            failure |-> "{\"error\":\"Internal error while getting recipe details\"}"]
      [] e = "/search-recipes" ->
           [check |-> "none", path |-> "recipes/search/v3", method |-> "GET",
            param |-> "search_expression", hasMax |-> TRUE, dflt |-> 20, cap |-> 50,
            inline |-> FALSE,
            missing |-> "",
            failure |-> "{\"error\":\"Internal error while searching recipes\"}"]
      [] e = "/recipe-types" ->
           [check |-> "none", path |-> "recipe-types/v2", method |-> "GET",
            param |-> "", hasMax |-> FALSE, dflt |-> 0, cap |-> 0,
            inline |-> FALSE,
            missing |-> "",
            failure |-> "{\"error\":\"Internal error while fetching recipe types\"}"]
      [] e = "/nlp" ->
           [check |-> "string", path |-> "natural-language-processing/v1", method |-> "POST",
            param |-> "user_input", hasMax |-> FALSE, dflt |-> 0, cap |-> 0,
            inline |-> TRUE,
            missing |-> "{\"error\":\"Missing or invalid user_input (required)\"}",
            failure |-> "{\"error\":\"Internal error while processing natural language input\"}"]
      [] e = "/image-recognition" ->
           [check |-> "string", path |-> "image-recognition/v2", method |-> "POST",
            param |-> "image_b64", hasMax |-> FALSE, dflt |-> 0, cap |-> 0,
            inline |-> TRUE,
            missing |-> "{\"error\":\"Missing or invalid image_b64 (Base64 string required)\"}",
            failure |-> "{\"error\":\"Internal error while processing image\"}"]

\* Invalid, testing only for a missing parameter
InvalidOnlyMissing(e, p) ==
    CASE Route(e).check = "truthy" -> p = Undefined
      [] Route(e).check = "barcode" ->
            p = Undefined \/ Len(JSString(p).s) # BarcodeLength
      [] Route(e).check = "string" -> p = Undefined \/ p.t # "string"
      [] OTHER -> FALSE

\* The validation of the handler's required parameter p: TRUE when the
\* handler answers 400.
Invalid(e, p) ==
    CASE Route(e).check = "truthy" -> ~Truthy(p)
      [] Route(e).check = "barcode" ->
            ~Truthy(p) \/ Len(JSString(p).s) # BarcodeLength
      [] Route(e).check = "string" -> ~Truthy(p) \/ p.t # "string"
      [] OTHER -> FALSE

\* CappedMaxResults without the Math.min
UncappedMaxResults(e, mr) ==
    OrElse(ToNumber(WithDefault(mr, Num(Route(e).dflt))), Num(Route(e).dflt))

\* Math.min(Number(max_results) || dflt, cap), max_results defaulting to dflt
CappedMaxResults(e, mr) ==
    MathMin(OrElse(ToNumber(WithDefault(mr, Num(Route(e).dflt))), Num(Route(e).dflt)),
            Num(Route(e).cap))

\* the query value url.searchParams.set() stores: String(value), and nothing
\* for an undefined value
QueryValue(v) == IF v = Undefined THEN Undefined ELSE JSString(v)

----------------------------------------------------------------------------
(* HTTP bodies are texts.  response.json() parses a text (JSONparse) and   *)
(* res.json() serialises a value (JSONstringify); the tables list the      *)
(* texts the modelled servers answer with.                                 *)

TokenBodyA == "{\"access_token\":\"A\",\"expires_in\":5}"
TokenBodyB == "{\"access_token\":\"B\",\"expires_in\":20}"
TokenBodyC == "{\"access_token\":\"C\",\"expires_in\":10}"
RejectBody == "{\"error\":\"invalid_client\"}"
FoodsBody == "{\"foods\":[]}"
FoodsBodyPretty == "{ \"foods\": [] }"
HtmlBody == "<html>Bad Gateway</html>"

\* a parsed JSON value: the fields getAccessToken reads, and the value as a
\* whole (named by `data`); ok = FALSE is the SyntaxError response.json() throws
ParseError == [ok |-> FALSE, access_token |-> Undefined, expires_in |-> Undefined,
               data |-> ""]

JSONparse(text) ==
    CASE text = TokenBodyA ->
           [ok |-> TRUE, access_token |-> Str(<<"A">>), expires_in |-> Num(5),
            data |-> "token A"]
      [] text = TokenBodyB ->
           [ok |-> TRUE, access_token |-> Str(<<"B">>), expires_in |-> Num(20),
            data |-> "token B"]
      [] text = TokenBodyC ->
           [ok |-> TRUE, access_token |-> Str(<<"C">>), expires_in |-> Num(10),
            data |-> "token C"]
      [] text = RejectBody ->
           [ok |-> TRUE, access_token |-> Undefined, expires_in |-> Undefined,
            data |-> "invalid_client"]
      [] text \in {FoodsBody, FoodsBodyPretty} ->
           [ok |-> TRUE, access_token |-> Undefined, expires_in |-> Undefined,
            data |-> "foods"]
      [] OTHER -> ParseError

JSONstringify(value) ==
    CASE value.data = "token A" -> TokenBodyA
      [] value.data = "token B" -> TokenBodyB
      [] value.data = "token C" -> TokenBodyC
      [] value.data = "invalid_client" -> RejectBody
      [] value.data = "foods" -> FoodsBody
      [] OTHER -> ""

\* what an outbound fetch ends with: a response (status and body text) or a
\* rejection of the promise (a network failure)
NoResp == [kind |-> "none", status |-> 0, body |-> ""]
NetFailure == [kind |-> "failure", status |-> 0, body |-> ""]
Response(status, body) == [kind |-> "response", status |-> status, body |-> body]

\* response.ok
Ok(o) == o.status >= 200 /\ o.status <= 299

OauthOutcomes ==
    {Response(200, TokenBodyA), Response(200, TokenBodyB),
     Response(401, RejectBody), Response(200, HtmlBody), NetFailure}

ApiOutcomes ==
    {Response(st, b) : st \in {200, 404}, b \in {FoodsBody, FoodsBodyPretty, HtmlBody}}
        \cup {NetFailure}

----------------------------------------------------------------------------
(* Inbound requests: the endpoint, the value of the parameter the handler  *)
(* validates, and max_results.                                             *)

Text == Str(<<"a">>)

Repeat(c, n) == [i \in 1..n |-> c]

BarcodeInputs ==
    {Undefined,
     Str(Repeat("7", BarcodeLength - 1)),
     Str(Repeat("7", BarcodeLength)),
     Str(Repeat("7", BarcodeLength + 1)),
     Str(Repeat("x", BarcodeLength))}

MaxResultsInputs ==
    {Undefined, Str(<<>>), Str(<<"a">>), Str(<<"0">>), Str(<<"-", "1">>),
     Str(<<"1">>), Str(<<"0", "7">>), Str(<<"1", "0">>), Str(<<"1", "1">>),
     Str(<<"5", "0">>), Str(<<"5", "1">>), Str(<<"1", "0", "0">>)}

ParamInputs(e) ==
    CASE Route(e).check = "barcode" -> BarcodeInputs
      [] Route(e).check = "truthy" -> {Undefined, Str(<<>>), Text}
      [] Route(e).check = "string" -> {Undefined, Str(<<>>), Num(5), Text}
      [] Route(e).param = "" -> {Undefined}
      [] OTHER -> {Undefined, Text}

Inputs ==
    UNION {[endpoint : {e}, param : ParamInputs(e),
            max_results : IF Route(e).hasMax THEN MaxResultsInputs ELSE {Undefined}]
           : e \in Endpoints}

\* the requests handled concurrently in SpecConc
ConcInputs ==
    {i \in Inputs : i.endpoint = "/food-details" /\ i.param \in {Undefined, Text}}

\* the answers of the OAuth endpoint in SpecReuse: tokens valid for 20 and
\* for 10 seconds
ReuseOauthOutcomes ==
    {Response(200, TokenBodyB), Response(200, TokenBodyC),
     Response(401, RejectBody), Response(200, HtmlBody), NetFailure}

\* the answers of the upstream API in SpecConc
ConcApiOutcomes == {Response(200, FoodsBody), Response(404, HtmlBody), NetFailure}

NoReq == [endpoint |-> "", param |-> Undefined, max_results |-> Undefined]
NoSent == [path |-> "", method |-> "", param |-> Undefined, max_results |-> Undefined,
           bearer |-> Undefined]
NoRes == [status |-> 0, body |-> ""]
NoErr == [name |-> "", status |-> 0, text |-> ""]

Init ==
    /\ clock = 0
    /\ cachedToken = Null
    /\ tokenExpiresAt = 0
    /\ validUntil = 0
    /\ pc = [r \in Reqs |-> "idle"]
    /\ req = [r \in Reqs |-> NoReq]
    /\ now = [r \in Reqs |-> 0]
    /\ token = [r \in Reqs |-> Undefined]
    /\ sent = [r \in Reqs |-> NoSent]
    /\ oauthResp = [r \in Reqs |-> NoResp]
    /\ apiResp = [r \in Reqs |-> NoResp]
    /\ res = [r \in Reqs |-> NoRes]
    /\ err = [r \in Reqs |-> NoErr]
    /\ oauthCalls = [r \in Reqs |-> 0]
    /\ apiCalls = [r \in Reqs |-> 0]

----------------------------------------------------------------------------
(* getAccessToken *)

\* CacheValid with a further minute of margin in the comparison
CacheValidEarly(t) == Truthy(cachedToken) /\ t < tokenExpiresAt - 60000

\* CacheValid, accepting a token at the instant tokenExpiresAt
CacheValidInclusive(t) == Truthy(cachedToken) /\ t <= tokenExpiresAt

\* the cache check of getAccessToken, with t the `now` it has just read
CacheValid(t) == Truthy(cachedToken) /\ t < tokenExpiresAt

\* ExpiryOf, reading the clock when the response is processed
ExpiryAtCompletion(t, data) == clock + data.expires_in.n * MsPerSecond - SafetyMarginMs

\* the expiry getAccessToken computes from its `now` and the parsed response
ExpiryOf(t, data) == t + data.expires_in.n * MsPerSecond - SafetyMarginMs

\* StoreToken, never moving the expiry backwards
StoreTokenKeepsLaterExpiry(t, data) ==
    /\ cachedToken' = data.access_token
    /\ tokenExpiresAt' = IF ExpiryOf(t, data) > tokenExpiresAt THEN ExpiryOf(t, data)
                         ELSE tokenExpiresAt

\* StoreToken, keeping a cached token that expires later than the new one
StoreTokenUnlessFresher(t, data) ==
    IF ExpiryOf(t, data) > tokenExpiresAt
    THEN /\ cachedToken' = data.access_token
         /\ tokenExpiresAt' = ExpiryOf(t, data)
    ELSE UNCHANGED <<cachedToken, tokenExpiresAt>>

\* the two assignments that follow `await response.json()`: no await
\* separates them
StoreToken(t, data) ==
    /\ cachedToken' = data.access_token
    /\ tokenExpiresAt' = ExpiryOf(t, data)

(* The outbound call to the upstream API, made with the token tok for the  *)
(* request i of slot r: fatsecretRestRequest after its first await, or the *)
(* fetch of the /nlp and /image-recognition handlers.                      *)
CallApi(r, i, tok) ==
    /\ sent' = [sent EXCEPT ![r] =
                  [path |-> Route(i.endpoint).path,
                   method |-> Route(i.endpoint).method,
                   param |-> IF Route(i.endpoint).inline THEN i.param
                             ELSE QueryValue(i.param),
                   max_results |-> IF Route(i.endpoint).hasMax
                                   THEN QueryValue(CappedMaxResults(i.endpoint, i.max_results))
                                   ELSE Undefined,
                   bearer |-> tok]]
    /\ apiCalls' = [apiCalls EXCEPT ![r] = @ + 1]
    /\ pc' = [pc EXCEPT ![r] = "awaitApi"]

\* Catch, answering with the text of the error
CatchLeaksError(r, e) ==
    /\ err' = [err EXCEPT ![r] = e]
    /\ res' = [res EXCEPT ![r] = [status |-> 500, body |-> e.text]]
    /\ pc' = [pc EXCEPT ![r] = "done"]

\* the catch block of a handler: the error is logged, the answer is the
\* route's fixed body
Catch(r, e) ==
    /\ err' = [err EXCEPT ![r] = e]
    /\ res' = [res EXCEPT ![r] = [status |-> 500, body |-> Route(req[r].endpoint).failure]]
    /\ pc' = [pc EXCEPT ![r] = "done"]

----------------------------------------------------------------------------
(* The steps of a request *)

\* the handler answers 400 and returns
Reject(r, i) ==
    /\ pc[r] = "idle"
    /\ Invalid(i.endpoint, i.param)
    /\ req' = [req EXCEPT ![r] = i]
    /\ res' = [res EXCEPT ![r] = [status |-> 400, body |-> Route(i.endpoint).missing]]
    /\ pc' = [pc EXCEPT ![r] = "done"]
    /\ UNCHANGED <<clock, cachedToken, tokenExpiresAt, validUntil, now, token, sent, oauthResp,
                   apiResp, err, oauthCalls, apiCalls>>

\* the handler passes validation, getAccessToken returns the cached token
\* and the upstream call is made
StartHit(r, i) ==
    /\ pc[r] = "idle"
    /\ ~Invalid(i.endpoint, i.param)
    /\ CacheValid(clock)
    /\ req' = [req EXCEPT ![r] = i]
    /\ now' = [now EXCEPT ![r] = clock]
    /\ token' = [token EXCEPT ![r] = cachedToken]
    /\ CallApi(r, i, cachedToken)
    /\ UNCHANGED <<clock, cachedToken, tokenExpiresAt, validUntil, oauthResp, apiResp, res, err,
                   oauthCalls>>

\* the handler passes validation, getAccessToken finds no usable token and
\* POSTs to OAUTH_URL
StartMiss(r, i) ==
    /\ pc[r] = "idle"
    /\ ~Invalid(i.endpoint, i.param)
    /\ ~CacheValid(clock)
    /\ req' = [req EXCEPT ![r] = i]
    /\ now' = [now EXCEPT ![r] = clock]
    /\ oauthCalls' = [oauthCalls EXCEPT ![r] = @ + 1]
    /\ pc' = [pc EXCEPT ![r] = "awaitOauth"]
    /\ UNCHANGED <<clock, cachedToken, tokenExpiresAt, validUntil, token, sent, oauthResp, apiResp,
                   res, err, apiCalls>>

\* the earliest end of validity of a token requested at t: issued at t,
\* valid for expires_in seconds
EarliestEnd(t, data) == t + data.expires_in.n * MsPerSecond

\* the OAuth endpoint answers with a success status and a JSON body
OauthOk(r, o) ==
    /\ pc[r] = "awaitOauth"
    /\ o.kind = "response" /\ Ok(o) /\ JSONparse(o.body).ok
    /\ oauthResp' = [oauthResp EXCEPT ![r] = o]
    /\ StoreToken(now[r], JSONparse(o.body))
    /\ validUntil' = EarliestEnd(now[r], JSONparse(o.body))
    /\ token' = [token EXCEPT ![r] = cachedToken']
    /\ CallApi(r, req[r], cachedToken')
    /\ UNCHANGED <<clock, req, now, apiResp, res, err, oauthCalls>>

\* OauthRejected, dropping the cached token
OauthRejectedClears(r, o) ==
    /\ pc[r] = "awaitOauth"
    /\ o.kind = "response" /\ ~Ok(o)
    /\ oauthResp' = [oauthResp EXCEPT ![r] = o]
    /\ cachedToken' = Null
    /\ tokenExpiresAt' = 0
    /\ validUntil' = 0
    /\ Catch(r, [name |-> "Failed to fetch token", status |-> o.status, text |-> o.body])
    /\ UNCHANGED <<clock, req, now, token, sent, apiResp, oauthCalls, apiCalls>>

\* the OAuth endpoint answers with a non-success status: getAccessToken
\* throws, the handler catches
OauthRejected(r, o) ==
    /\ pc[r] = "awaitOauth"
    /\ o.kind = "response" /\ ~Ok(o)
    /\ oauthResp' = [oauthResp EXCEPT ![r] = o]
    /\ Catch(r, [name |-> "Failed to fetch token", status |-> o.status, text |-> o.body])
    /\ UNCHANGED <<clock, cachedToken, tokenExpiresAt, validUntil, req, now, token, sent, apiResp,
                   oauthCalls, apiCalls>>

\* the OAuth endpoint answers with a success status and a body that is not
\* JSON: response.json() throws
OauthBadBody(r, o) ==
    /\ pc[r] = "awaitOauth"
    /\ o.kind = "response" /\ Ok(o) /\ ~JSONparse(o.body).ok
    /\ oauthResp' = [oauthResp EXCEPT ![r] = o]
    /\ Catch(r, [name |-> "SyntaxError", status |-> 0, text |-> o.body])
    /\ UNCHANGED <<clock, cachedToken, tokenExpiresAt, validUntil, req, now, token, sent, apiResp,
                   oauthCalls, apiCalls>>

\* the POST to OAUTH_URL fails: fetch rejects
OauthFails(r) ==
    /\ pc[r] = "awaitOauth"
    /\ oauthResp' = [oauthResp EXCEPT ![r] = NetFailure]
    /\ Catch(r, [name |-> "FetchError", status |-> 0, text |-> "request to OAUTH_URL failed"])
    /\ UNCHANGED <<clock, cachedToken, tokenExpiresAt, validUntil, req, now, token, sent, apiResp,
                   oauthCalls, apiCalls>>

\* ApiRelay, answering 500 for an upstream error status
ApiRelayErrorsAs500(r, o) ==
    /\ pc[r] = "awaitApi"
    /\ o.kind = "response" /\ JSONparse(o.body).ok
    /\ apiResp' = [apiResp EXCEPT ![r] = o]
    /\ res' = [res EXCEPT ![r] =
                 IF Ok(o)
                 THEN [status |-> o.status, body |-> JSONstringify(JSONparse(o.body))]
                 ELSE [status |-> 500, body |-> Route(req[r].endpoint).failure]]
    /\ pc' = [pc EXCEPT ![r] = "done"]
    /\ UNCHANGED <<clock, cachedToken, tokenExpiresAt, validUntil, req, now, token, sent, oauthResp,
                   err, oauthCalls, apiCalls>>

\* the upstream API answers with a JSON body: status and body are relayed
ApiRelay(r, o) ==
    /\ pc[r] = "awaitApi"
    /\ o.kind = "response" /\ JSONparse(o.body).ok
    /\ apiResp' = [apiResp EXCEPT ![r] = o]
    /\ res' = [res EXCEPT ![r] =
                 [status |-> o.status, body |-> JSONstringify(JSONparse(o.body))]]
    /\ pc' = [pc EXCEPT ![r] = "done"]
    /\ UNCHANGED <<clock, cachedToken, tokenExpiresAt, validUntil, req, now, token, sent, oauthResp,
                   err, oauthCalls, apiCalls>>

\* ApiBadBody with the throw outside the try block: nothing is answered
ApiBadBodyUncaught(r, o) ==
    /\ pc[r] = "awaitApi"
    /\ o.kind = "response" /\ ~JSONparse(o.body).ok
    /\ apiResp' = [apiResp EXCEPT ![r] = o]
    /\ err' = [err EXCEPT ![r] = [name |-> "SyntaxError", status |-> 0, text |-> o.body]]
    /\ pc' = [pc EXCEPT ![r] = "rejected"]
    /\ UNCHANGED <<clock, cachedToken, tokenExpiresAt, validUntil, req, now, token, sent,
                   oauthResp, res, oauthCalls, apiCalls>>

\* the upstream API answers with a body that is not JSON: response.json()
\* throws, the handler catches
ApiBadBody(r, o) ==
    /\ pc[r] = "awaitApi"
    /\ o.kind = "response" /\ ~JSONparse(o.body).ok
    /\ apiResp' = [apiResp EXCEPT ![r] = o]
    /\ Catch(r, [name |-> "SyntaxError", status |-> 0, text |-> o.body])
    /\ UNCHANGED <<clock, cachedToken, tokenExpiresAt, validUntil, req, now, token, sent, oauthResp,
                   oauthCalls, apiCalls>>

\* ApiFails, making the call again
ApiFailsRetries(r) ==
    /\ pc[r] = "awaitApi"
    /\ apiResp' = [apiResp EXCEPT ![r] = NetFailure]
    /\ apiCalls' = [apiCalls EXCEPT ![r] = @ + 1]
    /\ UNCHANGED <<clock, cachedToken, tokenExpiresAt, validUntil, pc, req, now, token, sent,
                   oauthResp, res, err, oauthCalls>>

\* the call to the upstream API fails: fetch rejects, the handler catches
ApiFails(r) ==
    /\ pc[r] = "awaitApi"
    /\ apiResp' = [apiResp EXCEPT ![r] = NetFailure]
    /\ Catch(r, [name |-> "FetchError", status |-> 0, text |-> "request to upstream failed"])
    /\ UNCHANGED <<clock, cachedToken, tokenExpiresAt, validUntil, req, now, token, sent, oauthResp,
                   oauthCalls, apiCalls>>

\* the answered request leaves; the slot takes the next inbound request
Close(r) ==
    /\ pc[r] = "done"
    /\ pc' = [pc EXCEPT ![r] = "idle"]
    /\ req' = [req EXCEPT ![r] = NoReq]
    /\ now' = [now EXCEPT ![r] = 0]
    /\ token' = [token EXCEPT ![r] = Undefined]
    /\ sent' = [sent EXCEPT ![r] = NoSent]
    /\ oauthResp' = [oauthResp EXCEPT ![r] = NoResp]
    /\ apiResp' = [apiResp EXCEPT ![r] = NoResp]
    /\ res' = [res EXCEPT ![r] = NoRes]
    /\ err' = [err EXCEPT ![r] = NoErr]
    /\ oauthCalls' = [oauthCalls EXCEPT ![r] = 0]
    /\ apiCalls' = [apiCalls EXCEPT ![r] = 0]
    /\ UNCHANGED <<clock, cachedToken, tokenExpiresAt, validUntil>>

\* time passes
Tick ==
    /\ clock < MaxTicks * TickMs
    /\ clock' = clock + TickMs
    /\ UNCHANGED <<cachedToken, tokenExpiresAt, validUntil, pc, req, now, token, sent, oauthResp,
                   apiResp, res, err, oauthCalls, apiCalls>>

----------------------------------------------------------------------------
(* Spec: requests of every route and input, handled one after the other.   *)
(* SpecConc: MaxReqs requests of one route, handled concurrently.          *)

Receive(r, S) == \E i \in S : Reject(r, i) \/ StartHit(r, i) \/ StartMiss(r, i)

OauthAnswers(r, S) ==
    \/ \E o \in S \ {NetFailure} : OauthOk(r, o) \/ OauthRejected(r, o) \/ OauthBadBody(r, o)
    \/ NetFailure \in S /\ OauthFails(r)

ApiAnswers(r, S) ==
    \/ \E o \in S \ {NetFailure} : ApiRelay(r, o) \/ ApiBadBody(r, o)
    \/ NetFailure \in S /\ ApiFails(r)

Next ==
    \/ Receive(1, Inputs)
    \/ OauthAnswers(1, OauthOutcomes)
    \/ ApiAnswers(1, ApiOutcomes)
    \/ Close(1)
    \/ Tick

Spec == Init /\ [][Next]_vars

NextConc ==
    \/ \E r \in Reqs : Receive(r, ConcInputs) \/ OauthAnswers(r, OauthOutcomes)
                        \/ ApiAnswers(r, ConcApiOutcomes)
    \/ Tick

SpecConc == Init /\ [][NextConc]_vars

(* SpecLive: concurrent requests at one instant of the clock, with every  *)
(* outbound call eventually answered or failed.                            *)
NextLive ==
    \E r \in Reqs : \/ Receive(r, ConcInputs)
                    \/ OauthAnswers(r, OauthOutcomes)
                    \/ ApiAnswers(r, ConcApiOutcomes)

SpecLive ==
    /\ Init
    /\ [][NextLive]_vars
    /\ \A r \in Reqs : /\ WF_vars(OauthAnswers(r, OauthOutcomes))
                       /\ WF_vars(ApiAnswers(r, ConcApiOutcomes))

(* SpecReuse: MaxReqs requests of one route at a time, handled             *)
(* concurrently, each slot taking a new request once it has answered; the  *)
(* upstream API answers every call with 200 and a JSON body.               *)
NextReuse ==
    \/ \E r \in Reqs : \/ Receive(r, ConcInputs)
                        \/ OauthAnswers(r, ReuseOauthOutcomes)
                        \/ ApiRelay(r, Response(200, FoodsBody))
                        \/ Close(r)
    \/ Tick

SpecReuse == Init /\ [][NextReuse]_vars

----------------------------------------------------------------------------
(* Properties of getAccessToken and of the token cache *)

\* slot r calls getAccessToken in this step: its handler starts and passes
\* validation
CallsGetAccessToken(r) == pc[r] = "idle" /\ pc'[r] \in {"awaitOauth", "awaitApi"}

\* the answer of the OAuth endpoint to slot r is a success response whose
\* body is a token object
TokenGranted(o) ==
    /\ o.kind = "response"
    /\ o.status \in 200..299
    /\ o.body \in {TokenBodyA, TokenBodyB}

\* C1: a getAccessToken call made while a token is cached and the current
\* time is strictly before tokenExpiresAt returns the cached token, makes no
\* request to the OAuth endpoint and leaves cachedToken and tokenExpiresAt
\* as they were, whatever calls succeeded or failed before.
C1_CachedTokenReused ==
    [][\A r \in Reqs :
         (CallsGetAccessToken(r) /\ cachedToken # Null /\ clock < tokenExpiresAt)
         => /\ token'[r] = cachedToken
            /\ oauthCalls'[r] = 0
            /\ pc'[r] = "awaitApi"
            /\ cachedToken' = cachedToken
            /\ tokenExpiresAt' = tokenExpiresAt]_vars

\* a call made after time has passed was served from the cache, one tick
\* before the cached token expires
C1_Witness ==
    \E r \in Reqs :
        /\ pc[r] = "awaitApi" /\ oauthCalls[r] = 0
        /\ token[r] = cachedToken /\ token[r] = Str(<<"B">>)
        /\ now[r] > 0 /\ now[r] + TickMs >= tokenExpiresAt

\* C2: a getAccessToken call that starts without a usable cached token and
\* is answered with a token by the OAuth endpoint has made exactly one POST,
\* returns the response's access_token, and stores that token together with
\* the expiry now + expires_in*1000 - 10000, now being the time read when
\* the call started.
C2_RefreshStoresTokenAndExpiry ==
    [][\A r \in Reqs :
         /\ (pc[r] = "idle" /\ pc'[r] = "awaitOauth")
            => (now'[r] = clock /\ oauthCalls'[r] = 1
                /\ (cachedToken = Null \/ clock >= tokenExpiresAt))
         /\ (pc[r] = "awaitOauth" /\ TokenGranted(oauthResp'[r]))
            => LET data == JSONparse(oauthResp'[r].body) IN
               /\ oauthCalls'[r] = 1
               /\ token'[r] = data.access_token
               /\ cachedToken' = data.access_token
               /\ tokenExpiresAt' = now[r] + data.expires_in.n * 1000 - 10000
               /\ now'[r] = now[r]]_vars

\* a refresh was answered after time had passed since the call started, and
\* its result is in the cache
C2_Witness ==
    \E r \in Reqs :
        /\ pc[r] = "awaitApi" /\ oauthCalls[r] = 1
        /\ TokenGranted(oauthResp[r])
        /\ clock > now[r] /\ now[r] > 0
        /\ token[r] = Str(<<"B">>) /\ cachedToken = token[r]
        /\ tokenExpiresAt = now[r] + 10000

\* C3: when the OAuth endpoint answers a refresh with a non-success status,
\* getAccessToken throws (the caller gets no token, the request ends with
\* the caught error) and cachedToken and tokenExpiresAt keep their values.
C3_RejectedRefreshKeepsCache ==
    [][\A r \in Reqs :
         (/\ pc[r] = "awaitOauth"
          /\ oauthResp'[r].kind = "response"
          /\ oauthResp'[r].status \notin 200..299)
         => /\ token'[r] = Undefined
            /\ err'[r].name = "Failed to fetch token"
            /\ pc'[r] = "done"
            /\ apiCalls'[r] = 0
            /\ cachedToken' = cachedToken
            /\ tokenExpiresAt' = tokenExpiresAt]_vars

\* a refresh was rejected while the cache held the token of another call
C3_Witness ==
    \E r \in Reqs :
        /\ pc[r] = "done" /\ oauthResp[r].status = 401
        /\ token[r] = Undefined
        /\ cachedToken = Str(<<"B">>) /\ tokenExpiresAt > 0

\* C10: in every reachable state the pair (cachedToken, tokenExpiresAt) is
\* the initial pair (null, 0) or the access_token of one successful OAuth
\* response with the expiry computed from that response and from the start
\* time of the call that received it.
C10_CachePairFromOneResponse ==
    \/ cachedToken = Null /\ tokenExpiresAt = 0
    \/ \E r \in Reqs :
         /\ pc[r] \in {"awaitApi", "done"}
         /\ TokenGranted(oauthResp[r])
         /\ cachedToken = JSONparse(oauthResp[r].body).access_token
         /\ tokenExpiresAt =
              now[r] + JSONparse(oauthResp[r].body).expires_in.n * 1000 - 10000

\* two concurrent refreshes got different tokens, and the one that started
\* first was processed last
C10_Witness ==
    \E r, q \in Reqs :
        /\ r # q
        /\ TokenGranted(oauthResp[r]) /\ TokenGranted(oauthResp[q])
        /\ oauthResp[r].body = TokenBodyA /\ oauthResp[q].body = TokenBodyB
        /\ now[r] < now[q]
        /\ cachedToken = Str(<<"A">>)
        /\ tokenExpiresAt = now[r] - 5000

----------------------------------------------------------------------------
(* Properties of the route handlers, checked under Spec *)

\* C4: a /search-foods or /autocomplete-foods request whose q is missing or
\* empty is answered 400, and for it no call is made to the OAuth endpoint
\* or to the upstream API and the token cache is left as it was.
C4_MissingQueryRejectedBeforeAnyCall ==
    [][\A r \in Reqs :
         (/\ pc[r] = "idle" /\ pc'[r] # "idle"
          /\ req'[r].endpoint \in {"/search-foods", "/autocomplete-foods"}
          /\ req'[r].param \in {Undefined, Str(<<>>)})
         => /\ pc'[r] = "done"
            /\ res'[r].status = 400
            /\ oauthCalls'[r] = 0 /\ apiCalls'[r] = 0
            /\ sent'[r] = NoSent
            /\ cachedToken' = cachedToken
            /\ tokenExpiresAt' = tokenExpiresAt]_vars

\* an /autocomplete-foods request with an empty q was answered 400 while the
\* cache held a token
C4_Witness ==
    \E r \in Reqs :
        /\ pc[r] = "done" /\ req[r].endpoint = "/autocomplete-foods"
        /\ req[r].param = Str(<<>>)
        /\ res[r].status = 400
        /\ cachedToken # Null

ThirteenDigits(v) == v.t = "string" /\ Len(v.s) = 13 /\ AllDigits(v.s)

\* C5: a /find-food-by-barcode request is forwarded to the upstream API if
\* and only if its barcode is a value of exactly 13 digits; any other value
\* is answered 400 with no outbound call, and is never sent upstream.
C5_BarcodeForwardedIffThirteenDigits ==
    \A r \in Reqs :
        (pc[r] # "idle" /\ req[r].endpoint = "/find-food-by-barcode")
        => IF ThirteenDigits(req[r].param)
           THEN res[r].status # 400 /\ oauthCalls[r] + apiCalls[r] > 0
           ELSE /\ res[r].status = 400
                /\ oauthCalls[r] = 0 /\ apiCalls[r] = 0
                /\ sent[r] = NoSent

ClaimedCap(e) == IF e = "/autocomplete-foods" THEN 10 ELSE 50

ClaimedDefault(e) == IF e = "/autocomplete-foods" THEN 4 ELSE 20

\* C6: the max_results sent upstream by /search-foods, /search-recipes and
\* /autocomplete-foods never exceeds the cap (50, 50, 10): a numeric value
\* above the cap is sent as the cap, a positive numeric value at or below
\* the cap is sent with its value, and an absent, zero or non-numeric value
\* is sent as the default (20, 20, 4).
C6_MaxResultsCapped ==
    \A r \in Reqs :
        (/\ sent[r] # NoSent
         /\ req[r].endpoint \in {"/search-foods", "/search-recipes", "/autocomplete-foods"})
        => LET cap == ClaimedCap(req[r].endpoint)
               dflt == ClaimedDefault(req[r].endpoint)
               given == req[r].max_results
               n == ToNumber(given)
               out == sent[r].max_results
           IN /\ out.t = "string"
              /\ ToNumber(out).t = "number"
              /\ ToNumber(out).n <= cap
              /\ (given # Undefined /\ n.t = "number" /\ n.n > cap)
                 => out = Str(NatToChars(cap))
              /\ (given # Undefined /\ n.t = "number" /\ n.n >= 1 /\ n.n <= cap)
                 => ToNumber(out) = n
              /\ (given = Undefined \/ n.t = "nan" \/ (n.t = "number" /\ n.n = 0))
                 => out = Str(NatToChars(dflt))

\* /search-foods was asked for 100 results and /autocomplete-foods for 11,
\* and the upstream call was made
C6_Witness ==
    \E r \in Reqs :
        /\ sent[r] # NoSent
        /\ \/ /\ req[r].endpoint = "/search-foods"
              /\ req[r].max_results = Str(<<"1", "0", "0">>)
              /\ sent[r].max_results = Str(<<"5", "0">>)
           \/ /\ req[r].endpoint = "/autocomplete-foods"
              /\ req[r].max_results = Str(<<"1", "1">>)
              /\ sent[r].max_results = Str(<<"1", "0">>)

\* the upstream API answered the call of slot r with an error status
UpstreamError(r) ==
    /\ pc[r] = "done"
    /\ apiResp[r].kind = "response"
    /\ apiResp[r].status \notin 200..299

\* C7, as claimed: when the token was obtained and the upstream API answers
\* with a non-2xx status s and body b, the inbound request is answered with
\* status s and body b, and never with 500.
C7_UpstreamErrorRelayedAsIs ==
    \A r \in Reqs :
        UpstreamError(r)
        => res[r] = [status |-> apiResp[r].status, body |-> apiResp[r].body]

\* C7, amended: when the token was obtained and the upstream API answers
\* with a non-2xx status s and a body b that is JSON, the inbound request is
\* answered with status s and a body that is the same JSON value (b parsed
\* and serialised again); when b is not JSON the answer is 500 with the
\* route's fixed error body.
C7_UpstreamErrorRelayedWhenJson ==
    \A r \in Reqs :
        UpstreamError(r)
        => IF JSONparse(apiResp[r].body).ok
           THEN /\ res[r].status = apiResp[r].status
                /\ JSONparse(res[r].body) = JSONparse(apiResp[r].body)
           ELSE /\ res[r].status = 500
                /\ res[r].body = Route(req[r].endpoint).failure

\* /nlp got a 404 with a JSON body from the upstream API and answered 404
C7_Witness ==
    \E r \in Reqs :
        /\ UpstreamError(r)
        /\ req[r].endpoint = "/nlp"
        /\ apiResp[r] = Response(404, FoodsBodyPretty)
        /\ res[r] = [status |-> 404, body |-> FoodsBody]

\* the request of slot r passed validation and then met a failure: of the
\* OAuth call (rejected, network failure, body not JSON) or of the upstream
\* call (network failure, body not JSON)
FailedAfterValidation(r) ==
    \/ oauthResp[r].kind = "failure"
    \/ oauthResp[r].kind = "response" /\ oauthResp[r].status \notin 200..299
    \/ oauthResp[r].kind = "response" /\ ~JSONparse(oauthResp[r].body).ok
    \/ apiResp[r].kind = "failure"
    \/ apiResp[r].kind = "response" /\ ~JSONparse(apiResp[r].body).ok

\* C8: on every route a failure raised after validation ends the request
\* with status 500 and the route's fixed error body; the error itself is
\* logged and the body does not depend on it.
C8_FailureAnsweredWithFixed500 ==
    \A r \in Reqs :
        FailedAfterValidation(r)
        => /\ pc[r] = "done"
           /\ res[r] = [status |-> 500, body |-> Route(req[r].endpoint).failure]
           /\ err[r] # NoErr

\* /image-recognition answered 500 after the OAuth endpoint had rejected the
\* token request with a body of its own
C8_Witness ==
    \E r \in Reqs :
        /\ pc[r] = "done" /\ req[r].endpoint = "/image-recognition"
        /\ oauthResp[r] = Response(401, RejectBody)
        /\ err[r].text = RejectBody
        /\ res[r].status = 500

\* C9: a request makes at most one call to the OAuth endpoint and at most
\* one to the upstream API; the upstream call is made only once this
\* request's getAccessToken has returned a token, so a request rejected by
\* validation or left without a token makes no upstream call; and after a
\* failed upstream call the request is answered 500 and makes no further
\* call.
C9_CallsPerRequest ==
    \A r \in Reqs :
        /\ oauthCalls[r] <= 1 /\ apiCalls[r] <= 1
        /\ apiCalls[r] = 1
           => (token[r].t = "string" /\ sent[r].bearer = token[r]
               /\ (oauthCalls[r] = 1 => TokenGranted(oauthResp[r])))
        /\ res[r].status = 400 => (oauthCalls[r] = 0 /\ apiCalls[r] = 0)
        /\ token[r] = Undefined => apiCalls[r] = 0
        /\ (oauthResp[r].kind # "none" /\ ~TokenGranted(oauthResp[r])) => apiCalls[r] = 0
        /\ apiResp[r].kind = "failure"
           => (pc[r] = "done" /\ res[r].status = 500 /\ apiCalls[r] = 1)
        /\ pc[r] = "done" => (apiCalls[r] = 1 <=> apiResp[r].kind # "none")

\* a request refreshed the token, called the upstream API, and was answered
\* 500 after that call failed
C9_Witness ==
    \E r \in Reqs :
        /\ pc[r] = "done" /\ apiResp[r] = NetFailure
        /\ oauthCalls[r] = 1 /\ apiCalls[r] = 1
        /\ res[r].status = 500

----------------------------------------------------------------------------
(* Concurrent refreshes, checked under SpecConc *)

\* the token of the successful OAuth response o
GrantedToken(o) == JSONparse(o.body).access_token

\* slot r processes a successful OAuth response in this step
ProcessesGrant(r) == pc[r] = "awaitOauth" /\ TokenGranted(oauthResp'[r])

\* C11: getAccessToken calls that pass the expiry check before any of them
\* has stored a result each make their own OAuth call, and that is harmless:
\* a call that completes successfully returns the access_token of its own
\* response, an OAuth call is made only by a call that observed a missing or
\* expired cache (one call each), and the cache holds the token of the
\* response processed last.
C11_RedundantRefreshHarmless ==
    /\ [](\A r \in Reqs :
            /\ oauthCalls[r] <= 1
            /\ TokenGranted(oauthResp[r]) => token[r] = GrantedToken(oauthResp[r]))
    /\ [][/\ \A r \in Reqs :
               /\ oauthCalls'[r] > oauthCalls[r]
                  => /\ pc[r] = "idle"
                     /\ oauthCalls'[r] = oauthCalls[r] + 1
                     /\ (cachedToken = Null \/ clock >= tokenExpiresAt)
               /\ (CallsGetAccessToken(r) /\ (cachedToken = Null \/ clock >= tokenExpiresAt))
                  => (oauthCalls'[r] = 1 /\ pc'[r] = "awaitOauth")
               /\ ProcessesGrant(r) => cachedToken' = GrantedToken(oauthResp'[r])
          /\ (\A r \in Reqs : ~ProcessesGrant(r)) => cachedToken' = cachedToken]_vars

\* two calls read the same `now`, each made its own OAuth call and got its
\* own token; the response with token A was processed after the one with
\* token B, which would still have been valid, and the cache holds A
C11_Witness ==
    \E r, q \in Reqs :
        /\ r # q
        /\ oauthCalls[r] = 1 /\ oauthCalls[q] = 1
        /\ now[r] = now[q]
        /\ oauthResp[r] = Response(200, TokenBodyA) /\ token[r] = Str(<<"A">>)
        /\ oauthResp[q] = Response(200, TokenBodyB) /\ token[q] = Str(<<"B">>)
        /\ clock < now[q] + 10000
        /\ cachedToken = Str(<<"A">>)

----------------------------------------------------------------------------
(* Validity of the tokens served from the cache, checked under SpecReuse *)

\* slot r calls getAccessToken in this step and gets the cached token
ServedFromCache(r) ==
    CallsGetAccessToken(r) /\ pc'[r] = "awaitApi" /\ oauthCalls'[r] = 0

\* the tokens the OAuth endpoint grants for 10 seconds or less
ShortLivedTokens ==
    {JSONparse(b).access_token :
        b \in {x \in {TokenBodyA, TokenBodyB, TokenBodyC} : JSONparse(x).expires_in.n <= 10}}

\* C12: if the OAuth server issues a token no earlier than the request for
\* it is sent and the token is valid for expires_in seconds from then, every
\* token getAccessToken returns from the cache has more than 10 seconds of
\* validity left when it is returned, under any interleaving of concurrent
\* refreshes, and a token granted for 10 seconds or less is never returned
\* from the cache.
C12_ServedTokenStillValid ==
    [][\A r \in Reqs :
         ServedFromCache(r)
         => /\ token'[r] = cachedToken
            /\ validUntil - clock > 10000
            /\ token'[r] \notin ShortLivedTokens]_vars

\* two refreshes were in flight, the response to the older call was
\* processed after the response to the newer one and overwrote its later
\* expiry, and a further call was then served from the cache
C12_Witness ==
    \E r, q \in Reqs :
        /\ r # q
        /\ pc[r] = "awaitApi" /\ oauthCalls[r] = 0 /\ token[r] = Str(<<"B">>)
        /\ oauthCalls[q] = 1 /\ oauthResp[q] = Response(200, TokenBodyB)
        /\ cachedToken = Str(<<"B">>)
        /\ tokenExpiresAt < now[q] + 10000
        /\ now[r] < tokenExpiresAt
        /\ validUntil = tokenExpiresAt + 10000

----------------------------------------------------------------------------
(* Every request is answered once, checked under SpecLive *)

\* the handler of slot r is waiting for an outbound call
InFlight(r) == pc[r] \in {"awaitOauth", "awaitApi"}

\* the response of slot r is one the claim allows: 400 for a request that
\* fails validation, 500 for a failure after validation, and otherwise the
\* status the upstream API answered with
AllowedAnswer(r) ==
    \/ /\ res[r].status = 400
       /\ ~Truthy(req[r].param)
       /\ oauthResp[r] = NoResp /\ apiResp[r] = NoResp
    \/ /\ res[r].status = 500
       /\ FailedAfterValidation(r)
    \/ /\ apiResp[r].kind = "response"
       /\ res[r].status = apiResp[r].status
       /\ ~FailedAfterValidation(r)

====
